---- MODULE Spec2Model ----
(***************************************************************************)
(* Model of the JobMug database connection manager                         *)
(* (server/src/lib/mongoose.js, connectToDatabase) together with its two   *)
(* callers in the repository: the health endpoint (server/src/api/health.js)*)
(* and the serverless wrapper with its bounded-wait initialiser tryInitDb  *)
(* (server/src/api/index.js).                                              *)
(*                                                                         *)
(* JavaScript runs one macrotask at a time; every action below is one      *)
(* macrotask together with the promise continuations (microtasks) that it  *)
(* makes runnable.  The suspension points are the mongoose.connect call,   *)
(* the backoff timer and the bounded-wait timer.                           *)
(***************************************************************************)
EXTENDS Integers, Sequences, FiniteSets, TLC

\* ---------------------------------------------------------------- bounds
NumCallers == 3
MaxOptAttempts == 3

\* ------------------------------------------------------ program constants
DefaultMaxAttempts == 4
DefaultBaseDelay == 500
HealthMaxAttempts == 3
HealthBaseDelay == 500
InitMaxAttempts == 2
InitBaseDelay == 200
Connected == 1
Disconnected == 0
Connecting == 2

\* ------------------------------------------------------------ value sets
NULL == "null"
\* an option the caller did not supply
UNDEF == -1
\* no promise cached (sequence ids start at 1)
NOSEQ == 0
Handle == "mongoose"
\* the request handler built by serverless(app)
HandlerFn == "serverless(app)"
ConfigError == "MONGODB_URI must be provided"
\* the error object with which the k-th mongoose.connect call of a sequence
\* rejects; every rejection is an object of its own
ErrOf(k) == "connect error " \o ToString(k)
Procs == 1..NumCallers
\* the options a direct caller passes: none, or explicit ones with the
\* smallest or the largest number of attempts
DirectOpts ==
  {[maxAttempts |-> UNDEF, baseDelay |-> UNDEF]}
    \cup {[maxAttempts |-> m, baseDelay |-> 100] : m \in {1, MaxOptAttempts}}
Methods == {"GET", "POST"}

VARIABLES
  uriSet,        \* process.env.MONGODB_URI || process.env.MONGO_URI is non-empty
  cache,         \* global[CACHE_KEY] = { conn, promise }
  seqs,          \* the retry sequences (async IIFEs) created so far, by id
  readyState,    \* mongoose.connection.readyState
  outstanding,   \* number of mongoose.connect calls that have not settled
  connectCalls,  \* number of mongoose.connect calls made so far
  callers,       \* one record per invocation of an entry point
  wrapper        \* the wrapper module's handler and initialized, and the app

vars == <<uriSet, cache, seqs, readyState, outstanding, connectCalls, callers, wrapper>>

\* ------------------------------------------------------- pure operators

\* 2^n, as Math.pow(2, n) for the non-negative n the loop produces
RECURSIVE Pow2(_)
Pow2(n) == IF n <= 0 THEN 1 ELSE 2 * Pow2(n - 1)

\* default parameter values of connectToDatabase
EffMaxAttempts(opt) == IF opt = UNDEF THEN DefaultMaxAttempts ELSE opt
EffBaseDelay(opt) == IF opt = UNDEF THEN DefaultBaseDelay ELSE opt

\* variant: the wait grows linearly with the attempt number
BackoffWaitLinear(baseDelay, attempt) == baseDelay * attempt

\* the wait computed after the attempt-th failed attempt
BackoffWait(baseDelay, attempt) == baseDelay * Pow2(attempt - 1)

\* the loop condition, evaluated before each attempt
LoopContinues(attempt, maxAttempts) == attempt < maxAttempts

\* variant: the give-up test is off by one and stops one attempt early
GivesUpEarly(attempt, maxAttempts) == attempt >= maxAttempts - 1

\* the loop gives up after a failure when the counter has reached maxAttempts
GivesUp(attempt, maxAttempts) == attempt >= maxAttempts

\* variant: the cached connection is compared with the wrong ready state
IsLiveWrongState(c, rs) == c.conn # NULL /\ rs = Connecting

\* the cached connection is established
IsLive(c, rs) == c.conn # NULL /\ rs = Connected

\* a retry sequence whose promise has not settled
Pending(s) == s.state \in {"connecting", "backoff"}

\* the manager's phase, as seen by a caller that arrives now
Phase(c, sq) ==
  IF c.promise = NOSEQ THEN "Idle"
  ELSE IF Pending(sq[c.promise]) THEN "Connecting"
  ELSE IF sq[c.promise].state = "resolved" THEN "Ready"
  ELSE "Failed"

\* variant: a new sequence is started whenever no handle is cached, whether
\* or not a promise is
BranchChecksConn(uri, c, rs) ==
  IF ~uri THEN "config"
  ELSE IF c.conn # NULL /\ rs = Connected THEN "warm"
  ELSE IF c.conn = NULL THEN "start"
  ELSE "attach"

\* variant: the URI is not validated before the cache is consulted
BranchNoUriCheck(uri, c, rs) ==
  IF c.conn # NULL /\ rs = Connected THEN "warm"
  ELSE IF c.promise = NOSEQ THEN "start"
  ELSE "attach"

\* which way one call of connectToDatabase goes
Branch(uri, c, rs) ==
  IF ~uri THEN "config"
  ELSE IF IsLive(c, rs) THEN "warm"
  ELSE IF c.promise = NOSEQ THEN "start"
  ELSE "attach"

\* the retry sequence at its first suspension point: attempt 1 is in flight
NewSeq(optMax, optBase) ==
  [state |-> "connecting", attempt |-> 1,
   optMax |-> optMax,
   maxAttempts |-> EffMaxAttempts(optMax),
   baseDelay |-> EffBaseDelay(optBase),
   lastErr |-> NULL, errs |-> <<>>, waits |-> <<>>]

\* what awaiting a settled sequence promise yields
PromiseOutcome(s) ==
  IF s.state = "resolved"
  THEN [outcome |-> "resolved", value |-> Handle]
  ELSE [outcome |-> "rejected", value |-> s.lastErr]

\* variant: a late caller returns the cached handle without awaiting the promise
LateAttachReturnsConn(c, s) == [outcome |-> "resolved", value |-> c.conn]

\* variant: a late caller is handed the mongoose module whatever the promise
\* settled to
LateAttachAlwaysHandle(c, s) == [outcome |-> "resolved", value |-> Handle]

\* `global.conn = await global.promise; return global.conn` on a promise that
\* has already settled
LateAttach(c, s) == PromiseOutcome(s)

\* variant: the method is not checked before the manager is called
HealthCallsAnyMethod(method, uri) == uri

\* the health endpoint calls the manager only for GET with a URI configured
HealthCalls(method, uri) == method = "GET" /\ uri

\* variant: the response does not look at the ready state of the handle
HealthStatusIgnoresState(method, uri, out, rs) ==
  IF method # "GET" THEN [code |-> 405, report |-> "notallowed"]
  ELSE IF ~uri THEN [code |-> 500, report |-> "error"]
  ELSE IF out.outcome = "rejected" THEN [code |-> 503, report |-> "error"]
  ELSE [code |-> 200, report |-> "ok"]

\* the health endpoint's response
HealthStatus(method, uri, out, rs) ==
  IF method # "GET" THEN [code |-> 405, report |-> "notallowed"]
  ELSE IF ~uri THEN [code |-> 500, report |-> "error"]
  ELSE IF out.outcome = "rejected" THEN [code |-> 503, report |-> "error"]
  ELSE IF rs = Connected THEN [code |-> 200, report |-> "ok"]
  ELSE [code |-> 503, report |-> "degraded"]

\* variant: a timed-out race is reported as connected
TryInitDbReturnOptimistic(via) ==
  IF via \in {"connected", "timeout"} THEN "true" ELSE "false"

\* tryInitDb's return value for each way its race ends
TryInitDbReturn(via) == IF via = "connected" THEN "true" ELSE "false"

\* variant: the bounded-wait timer cancels the sequence
TimeoutCancels(s) == [s EXCEPT !.state = "rejected", !.lastErr = "timeout"]

\* variant: the bounded-wait timer abandons the sequence where it is
TimeoutAbandons(s) == [s EXCEPT !.state = "abandoned"]

\* what the bounded-wait timer does to the sequence the caller waits for
TimeoutEffect(s) == s

\* variant: a caller that attaches to a running sequence imposes its options
AttachAdoptsOptions(s, optMax, optBase) ==
  [s EXCEPT !.optMax = optMax,
            !.maxAttempts = EffMaxAttempts(optMax),
            !.baseDelay = EffBaseDelay(optBase)]

\* what attaching to a running sequence with options of one's own does to it
AttachEffect(s, optMax, optBase) == s

\* a caller that has not been invoked yet
IdleCaller ==
  [kind |-> "none", pc |-> "idle", arg |-> "none", path |-> "none", at |-> "none",
   seq |-> NOSEQ,
   outcome |-> "none", value |-> NULL, method |-> "none",
   via |-> "none", ret |-> "none", code |-> 0, report |-> "none",
   optMax |-> UNDEF, optBase |-> UNDEF,
   bg |-> "none", appFail |-> FALSE, called |-> "none", resp |-> "none"]

\* the continuation of caller c once its connectToDatabase call has settled
\* with outcome out, under the ready state rs
Complete(c, out, rs) ==
  LET inner == [c EXCEPT !.pc = "done", !.outcome = out.outcome, !.value = out.value]
  IN  IF c.kind = "health"
      THEN LET h == HealthStatus(c.method, TRUE, out, rs)
           IN  [inner EXCEPT !.code = h.code, !.report = h.report]
      ELSE IF c.kind = "init" /\ c.via = "racing"
      THEN LET v == IF out.outcome = "resolved" THEN "connected" ELSE "rejected"
           IN  [inner EXCEPT !.via = v, !.ret = TryInitDbReturn(v)]
      ELSE IF c.kind = "init" /\ c.via = "timeout" /\ out.outcome = "rejected"
      THEN [inner EXCEPT !.bg = "logged"]
      ELSE inner

\* every caller awaiting sequence i continues with its outcome
Settle(cs, i, out, rs) ==
  [p \in Procs |->
     IF cs[p].pc = "awaiting" /\ cs[p].seq = i THEN Complete(cs[p], out, rs) ELSE cs[p]]

\* variant: the flag is stored negated
DbConnectedFlagInverted(ret) == IF ret = "true" THEN "false" ELSE "true"

\* the value init stores in app.locals.dbConnected
DbConnectedFlag(ret) == IF ret = "true" THEN "true" ELSE "false"

\* require('../src/app') succeeds once the module is loaded; before that it
\* may throw
RequireOutcomes(w) == IF w.appLoaded THEN {TRUE} ELSE BOOLEAN

\* variant: a rejected connection is not caught inside init
InitThrowsOnDbFailure(via, appOk) == ~appOk \/ via = "rejected"

\* init throws exactly when requiring the app throws
InitThrows(via, appOk) == ~appOk

\* variant: initialized is set before the app is required
InitCommitEager(w, via, ret, appOk) ==
  IF ~appOk THEN [w EXCEPT !.initialized = TRUE]
  ELSE [handler |-> HandlerFn, initialized |-> TRUE,
        appLoaded |-> TRUE, dbConnected |-> DbConnectedFlag(ret)]

\* the wrapper state after one init whose tryInitDb returned ret by way via
InitCommit(w, via, ret, appOk) ==
  IF InitThrows(via, appOk) THEN w
  ELSE [handler |-> HandlerFn, initialized |-> TRUE,
        appLoaded |-> TRUE, dbConnected |-> DbConnectedFlag(ret)]

\* the rest of the request of caller c after its init: the handler is called,
\* or the catch block answers 500
Respond(c, w, appOk) ==
  IF InitThrows(c.via, appOk)
  THEN [c EXCEPT !.appFail = ~appOk, !.resp = "500"]
  ELSE LET w1 == InitCommit(w, c.via, c.ret, appOk)
       IN  [c EXCEPT !.called = w1.handler,
                     !.resp = IF w1.handler = NULL THEN "500" ELSE "dispatched"]

\* the callers whose tryInitDb returns in the step that takes callers to cs
Returned(cs) == {p \in Procs : callers[p].ret = "none" /\ cs[p].ret # "none"}

\* the wrapper state after the inits of the callers in fin, run in the order
\* of their invocation
RECURSIVE RunInits(_, _, _, _)
RunInits(w, cs, fin, appOk) ==
  IF fin = {} THEN w
  ELSE LET p == CHOOSE x \in fin : \A y \in fin : x <= y
       IN  RunInits(InitCommit(w, cs[p].via, cs[p].ret, appOk), cs, fin \ {p}, appOk)

\* the end of a step that takes the callers to cs: every caller whose
\* tryInitDb has returned runs the rest of init and of its request
Commit(cs) ==
  LET fin == Returned(cs)
  IN  IF fin = {}
      THEN callers' = cs /\ wrapper' = wrapper
      ELSE \E appOk \in RequireOutcomes(wrapper) :
             /\ wrapper' = RunInits(wrapper, cs, fin, appOk)
             /\ callers' = [p \in Procs |->
                  IF p \in fin
                  THEN Respond(cs[p], RunInits(wrapper, cs, {q \in fin : q < p}, appOk), appOk)
                  ELSE cs[p]]

\* ------------------------------------------------------------------ Init
Init ==
  /\ uriSet \in BOOLEAN
  /\ cache = [conn |-> NULL, promise |-> NOSEQ]
  /\ seqs = <<>>
  /\ readyState = Disconnected
  /\ outstanding = 0
  /\ connectCalls = 0
  /\ callers = [p \in Procs |-> IdleCaller]
  /\ wrapper = [handler |-> NULL, initialized |-> FALSE,
                appLoaded |-> FALSE, dbConnected |-> "unset"]

\* --------------------------------------------------------------- actions

\* one call connectToDatabase(uri, {maxAttempts: optMax, baseDelay: optBase})
\* made by caller p, whose record before the call is c
connectToDatabase(p, c, uri, optMax, optBase) ==
  LET b == Branch(uri, cache, readyState)
      c0 == [c EXCEPT !.arg = IF uri THEN "uri" ELSE "nouri",
                      !.optMax = optMax, !.optBase = optBase,
                      !.path = b, !.at = Phase(cache, seqs)]
  IN
  CASE b = "config" ->
         /\ Commit([callers EXCEPT ![p] =
              Complete(c0, [outcome |-> "rejected", value |-> ConfigError], readyState)])
         /\ UNCHANGED <<cache, seqs, readyState, outstanding, connectCalls>>
    [] b = "warm" ->
         /\ Commit([callers EXCEPT ![p] =
              Complete(c0, [outcome |-> "resolved", value |-> cache.conn], readyState)])
         /\ UNCHANGED <<cache, seqs, readyState, outstanding, connectCalls>>
    [] b = "start" ->
         /\ seqs' = Append(seqs, NewSeq(optMax, optBase))
         /\ cache' = [cache EXCEPT !.promise = Len(seqs) + 1]
         /\ readyState' = Connecting
         /\ outstanding' = outstanding + 1
         /\ connectCalls' = connectCalls + 1
         /\ Commit([callers EXCEPT ![p] =
              [c0 EXCEPT !.pc = "awaiting", !.seq = Len(seqs) + 1]])
    [] b = "attach" ->
         LET i == cache.promise
             c1 == [c0 EXCEPT !.seq = i]
         IN  IF Pending(seqs[i])
             THEN /\ Commit([callers EXCEPT ![p] = [c1 EXCEPT !.pc = "awaiting"]])
                  /\ seqs' = [seqs EXCEPT ![i] = AttachEffect(@, optMax, optBase)]
                  /\ UNCHANGED <<cache, readyState, outstanding, connectCalls>>
             ELSE LET out == LateAttach(cache, seqs[i])
                  IN  /\ Commit([callers EXCEPT ![p] = Complete(c1, out, readyState)])
                      /\ cache' = IF out.outcome = "resolved"
                                  THEN [cache EXCEPT !.conn = out.value]
                                  ELSE cache
                      /\ UNCHANGED <<seqs, readyState, outstanding, connectCalls>>

\* invocations are numbered in the order in which they are made
NextInvocation(p) ==
  /\ callers[p].pc = "idle"
  /\ \A q \in Procs : q < p => callers[q].pc # "idle"

\* a direct call of the exported connectToDatabase; a call without a URI is
\* rejected before its options are read, so it is made with none
CallDirect(p) ==
  /\ NextInvocation(p)
  /\ \E uri \in BOOLEAN, o \in DirectOpts :
       /\ ~uri => o.maxAttempts = UNDEF
       /\ connectToDatabase(p, [callers[p] EXCEPT !.kind = "direct"], uri,
                            o.maxAttempts, o.baseDelay)
  /\ UNCHANGED uriSet

\* one request to the health endpoint
HealthRequest(p) ==
  /\ NextInvocation(p)
  /\ \E method \in Methods :
       LET c == [callers[p] EXCEPT !.kind = "health", !.method = method]
       IN  IF HealthCalls(method, uriSet)
           THEN connectToDatabase(p, c, uriSet, HealthMaxAttempts, HealthBaseDelay)
           ELSE LET h == HealthStatus(method, uriSet, [outcome |-> "none", value |-> NULL], readyState)
                IN  /\ Commit([callers EXCEPT ![p] =
                          [c EXCEPT !.pc = "done", !.path = "skip", !.at = Phase(cache, seqs),
                                    !.code = h.code, !.report = h.report]])
                    /\ UNCHANGED <<cache, seqs, readyState, outstanding, connectCalls>>
  /\ UNCHANGED uriSet

\* one request to the serverless wrapper that finds initialized false: it
\* runs init, which calls tryInitDb(uri, initTimeoutMs), up to its race
TryInitDb(p) ==
  /\ NextInvocation(p)
  /\ ~wrapper.initialized
  /\ LET c == [callers[p] EXCEPT !.kind = "init"]
     IN  IF ~uriSet
         THEN /\ Commit([callers EXCEPT ![p] =
                    [c EXCEPT !.pc = "done", !.path = "skip", !.at = Phase(cache, seqs),
                              !.via = "nouri", !.ret = TryInitDbReturn("nouri")]])
              /\ UNCHANGED <<cache, seqs, readyState, outstanding, connectCalls>>
         ELSE connectToDatabase(p, [c EXCEPT !.via = "racing"], uriSet,
                                InitMaxAttempts, InitBaseDelay)
  /\ UNCHANGED uriSet

\* one request to the serverless wrapper that finds initialized true: the
\* handler is called at once
Dispatch(p) ==
  /\ NextInvocation(p)
  /\ wrapper.initialized
  /\ callers' = [callers EXCEPT ![p] =
       [@ EXCEPT !.kind = "request", !.pc = "done", !.path = "skip",
                 !.at = Phase(cache, seqs), !.called = wrapper.handler,
                 !.resp = IF wrapper.handler = NULL THEN "500" ELSE "dispatched"]]
  /\ UNCHANGED <<uriSet, cache, seqs, readyState, outstanding, connectCalls, wrapper>>

\* the bounded-wait timer of tryInitDb fires while the sequence is running
InitTimeout(p) ==
  /\ callers[p].kind = "init"
  /\ callers[p].via = "racing"
  /\ callers[p].pc = "awaiting"
  /\ Pending(seqs[callers[p].seq])
  /\ Commit([callers EXCEPT ![p] =
       [@ EXCEPT !.via = "timeout", !.ret = TryInitDbReturn("timeout")]])
  /\ seqs' = [seqs EXCEPT ![callers[p].seq] = TimeoutEffect(@)]
  /\ UNCHANGED <<uriSet, cache, readyState, outstanding, connectCalls>>

\* the outstanding mongoose.connect call of sequence i resolves
ConnectSucceed(i) ==
  /\ seqs[i].state = "connecting"
  /\ seqs' = [seqs EXCEPT ![i] = [@ EXCEPT !.state = "resolved"]]
  /\ cache' = [cache EXCEPT !.conn = Handle]
  /\ readyState' = Connected
  /\ outstanding' = outstanding - 1
  /\ Commit(Settle(callers, i, PromiseOutcome(seqs'[i]), readyState'))
  /\ UNCHANGED <<uriSet, connectCalls>>

\* the outstanding mongoose.connect call of sequence i rejects
ConnectFail(i) ==
  /\ seqs[i].state = "connecting"
  /\ LET s == seqs[i]
         err == ErrOf(s.attempt)
         s1 == [s EXCEPT !.lastErr = err, !.errs = Append(@, err)]
     IN  IF GivesUp(s.attempt, s.maxAttempts)
         THEN /\ seqs' = [seqs EXCEPT ![i] = [s1 EXCEPT !.state = "rejected"]]
              /\ Commit(Settle(callers, i, PromiseOutcome(seqs'[i]), Disconnected))
         ELSE /\ seqs' = [seqs EXCEPT ![i] =
                   [s1 EXCEPT !.state = "backoff",
                              !.waits = Append(@, BackoffWait(s.baseDelay, s.attempt))]]
              /\ UNCHANGED <<callers, wrapper>>
  /\ readyState' = Disconnected
  /\ outstanding' = outstanding - 1
  /\ UNCHANGED <<uriSet, cache, connectCalls>>

\* the backoff timer of sequence i fires: the loop makes its next attempt
BackoffElapsed(i) ==
  /\ seqs[i].state = "backoff"
  /\ IF LoopContinues(seqs[i].attempt, seqs[i].maxAttempts)
     THEN /\ seqs' = [seqs EXCEPT ![i] = [@ EXCEPT !.state = "connecting", !.attempt = @ + 1]]
          /\ readyState' = Connecting
          /\ outstanding' = outstanding + 1
          /\ connectCalls' = connectCalls + 1
          /\ UNCHANGED <<callers, wrapper>>
     ELSE /\ seqs' = [seqs EXCEPT ![i] = [@ EXCEPT !.state = "rejected"]]
          /\ Commit(Settle(callers, i, PromiseOutcome(seqs'[i]), readyState))
          /\ UNCHANGED <<readyState, outstanding, connectCalls>>
  /\ UNCHANGED <<uriSet, cache>>

\* the established connection drops ('disconnected' event)
Disconnect ==
  /\ readyState = Connected
  /\ readyState' = Disconnected
  /\ UNCHANGED <<uriSet, cache, seqs, outstanding, connectCalls, callers, wrapper>>

\* the driver re-establishes a dropped connection by itself ('connected' event)
Reconnect ==
  /\ readyState = Disconnected
  /\ cache.conn # NULL
  /\ outstanding = 0
  /\ readyState' = Connected
  /\ UNCHANGED <<uriSet, cache, seqs, outstanding, connectCalls, callers, wrapper>>

Next ==
  \/ \E p \in Procs : CallDirect(p)
  \/ \E p \in Procs : HealthRequest(p)
  \/ \E p \in Procs : TryInitDb(p)
  \/ \E p \in Procs : Dispatch(p)
  \/ \E p \in Procs : InitTimeout(p)
  \/ \E i \in 1..Len(seqs) : ConnectSucceed(i)
  \/ \E i \in 1..Len(seqs) : ConnectFail(i)
  \/ \E i \in 1..Len(seqs) : BackoffElapsed(i)
  \/ Disconnect
  \/ Reconnect

Spec == Init /\ [][Next]_vars

\* the ids a retry sequence can have
SeqIds == 1..NumCallers

\* every mongoose.connect call settles and every backoff timer fires
FairSpec ==
  /\ Spec
  /\ WF_vars(\E i \in SeqIds : i <= Len(seqs) /\ (ConnectSucceed(i) \/ ConnectFail(i)))
  /\ WF_vars(\E i \in SeqIds : i <= Len(seqs) /\ BackoffElapsed(i))

\* ----------------------------------------------------------- properties

\* caller p is invoked in this step and calls connectToDatabase
AcquireCalled(p) == callers[p].pc = "idle" /\ callers'[p].arg # "none"

\* the number of attempts a sequence created with option optMax may make
AttemptLimit(optMax) == IF optMax = UNDEF THEN 4 ELSE optMax

\* the state of the manager and of the database driver
ManagerUnchanged == UNCHANGED <<cache, seqs, readyState, outstanding, connectCalls>>

\* C1: however many calls overlap while no live connection is cached, one
\* retry sequence is created, every waiting caller waits for it, and at most
\* one mongoose.connect call is outstanding.
Thm_C1_Coalescing ==
  /\ Len(seqs) <= 1
  /\ outstanding <= 1
  /\ (\E p \in Procs : callers[p].arg = "uri") => Len(seqs) = 1
  /\ \A p \in Procs : callers[p].pc = "awaiting" => callers[p].seq = 1

Wit_C1_Coalescing ==
  \E p, q, r \in Procs :
    /\ callers[r].path = "start" /\ callers[r].at = "Idle"
    /\ callers[p].via = "timeout" /\ callers[p].at = "Idle"
    /\ callers[q].path = "attach" /\ callers[q].at = "Connecting"
    /\ callers[q].pc = "awaiting"
    /\ Len(seqs) = 1 /\ outstanding = 1

\* C2 (as claimed): a call made after the cached sequence has been rejected
\* creates a new sequence at attempt 1 and makes a new mongoose.connect call.
CE_C2_RestartAfterFailed ==
  [][\A p \in Procs :
       (/\ AcquireCalled(p)
        /\ callers'[p].arg = "uri"
        /\ cache.promise # NOSEQ
        /\ seqs[cache.promise].state = "rejected")
       => /\ Len(seqs') = Len(seqs) + 1
          /\ seqs'[Len(seqs')].attempt = 1
          /\ connectCalls' = connectCalls + 1]_vars

\* C3 (as claimed): a call made while the cached handle reports not-live
\* starts one new sequence with a new mongoose.connect call, and does not
\* resolve with the dead handle.
CE_C3_SelfHeal ==
  [][\A p \in Procs :
       (/\ AcquireCalled(p)
        /\ callers'[p].arg = "uri"
        /\ cache.conn # NULL
        /\ readyState # Connected)
       => /\ Len(seqs') = Len(seqs) + 1
          /\ connectCalls' = connectCalls + 1
          /\ ~(callers'[p].outcome = "resolved" /\ readyState' # Connected)]_vars

\* C4: a sequence never makes more than maxAttempts attempts (4 when the
\* option is not supplied); once that many have failed it is rejected, with
\* the error of the last attempt, its waiters get that error, and no further
\* mongoose.connect call is made.
Thm_C4_Exhaustion ==
  \A i \in 1..Len(seqs) :
    LET s == seqs[i]
        n == AttemptLimit(s.optMax)
    IN  /\ s.attempt <= n
        /\ Len(s.errs) <= n
        /\ Len(s.errs) = n => s.state = "rejected"
        /\ s.state = "rejected" =>
             /\ s.attempt = n
             /\ Len(s.errs) = n
             /\ s.lastErr = s.errs[n]
             /\ connectCalls = n
             /\ outstanding = 0
             /\ \A p \in Procs :
                  (callers[p].seq = i /\ callers[p].arg = "uri")
                  => callers[p].outcome = "rejected" /\ callers[p].value = s.errs[n]

Wit_C4_Exhaustion ==
  \E p \in Procs :
    /\ callers[p].seq = 1
    /\ callers[p].outcome = "rejected"
    /\ seqs[1].optMax = UNDEF
    /\ seqs[1].state = "rejected"
    /\ Len(seqs[1].errs) = 4
    /\ seqs[1].errs[4] # seqs[1].errs[3]
    /\ callers[p].value = seqs[1].errs[4]

\* C5: the callers attached to one sequence all get its outcome: the handle
\* when it succeeded, its last error when it was exhausted, and none of them
\* is left waiting once it has settled.
Thm_C5_SameOutcome ==
  \A p \in Procs :
    callers[p].seq # NOSEQ =>
      LET s == seqs[callers[p].seq]
      IN  /\ callers[p].pc = "awaiting" <=> Pending(s)
          /\ s.state = "resolved" =>
               callers[p].outcome = "resolved" /\ callers[p].value = Handle
          /\ s.state = "rejected" =>
               callers[p].outcome = "rejected" /\ callers[p].value = s.lastErr
          /\ \A q \in Procs :
               (callers[q].seq = callers[p].seq /\ callers[q].outcome # "none")
               => /\ callers[q].outcome = callers[p].outcome
                  /\ callers[q].value = callers[p].value

Wit_C5_SameOutcome ==
  \E p, q \in Procs :
    /\ p # q
    /\ callers[p].seq = callers[q].seq
    /\ callers[p].path = "start"
    /\ callers[q].path = "attach" /\ callers[q].at = "Connecting"
    /\ callers[p].outcome = "resolved" /\ callers[q].outcome = "resolved"
    /\ seqs[callers[p].seq].attempt >= 2

\* C6: a call made with a URI while a handle is cached and reports live takes
\* the early return: it completes in the same step with the cached handle,
\* and the cache, the sequences and the connect calls are as before.
Thm_C6_WarmPath ==
  [][\A p \in Procs :
       (/\ AcquireCalled(p)
        /\ callers'[p].arg = "uri"
        /\ cache.conn # NULL
        /\ readyState = Connected)
       => /\ callers'[p].pc = "done"
          /\ callers'[p].path = "warm"
          /\ callers'[p].seq = NOSEQ
          /\ callers'[p].outcome = "resolved"
          /\ callers'[p].value = cache.conn
          /\ ManagerUnchanged]_vars

Wit_C6_WarmPath ==
  \E p \in Procs :
    /\ callers[p].path = "warm"
    /\ callers[p].at = "Ready"
    /\ callers[p].value = Handle
    /\ connectCalls = 1

\* C7: a call made without a URI is rejected in the same step with the
\* configuration error, in whatever phase the manager is, and the cache, the
\* sequences and the connect calls are as before.
Thm_C7_NoUri ==
  [][\A p \in Procs :
       (AcquireCalled(p) /\ callers'[p].arg = "nouri")
       => /\ callers'[p].pc = "done"
          /\ callers'[p].seq = NOSEQ
          /\ callers'[p].outcome = "rejected"
          /\ callers'[p].value = ConfigError
          /\ ManagerUnchanged]_vars

Wit_C7_NoUri ==
  \E p, q \in Procs :
    /\ callers[p].arg = "nouri" /\ callers[p].at = "Connecting"
    /\ callers[q].arg = "nouri" /\ callers[q].at = "Failed"
    /\ callers[p].value = ConfigError

\* C8: when the bounded wait of a tryInitDb caller elapses, the sequence it
\* waits for is left as it is, and a sequence some caller timed out on still
\* ends only by success or after maxAttempts failed attempts.
Thm_C8_BoundedWait ==
  /\ [](\A p \in Procs :
          callers[p].via = "timeout" =>
            LET s == seqs[callers[p].seq]
            IN  /\ s.state = "rejected" =>
                     s.attempt = AttemptLimit(s.optMax) /\ Len(s.errs) = s.attempt
                /\ s.state = "resolved" =>
                     cache.conn = Handle /\ Len(s.errs) = s.attempt - 1)
  /\ [][\A p \in Procs :
          (callers[p].via = "racing" /\ callers'[p].via = "timeout")
          => /\ callers'[p].ret = "false"
             /\ callers'[p].pc = "awaiting"
             /\ ManagerUnchanged]_vars

Wit_C8_BoundedWait ==
  \E p \in Procs :
    /\ callers[p].via = "timeout"
    /\ callers[p].path = "start"
    /\ callers[p].outcome = "resolved"
    /\ seqs[callers[p].seq].attempt = InitMaxAttempts

\* C9 (as claimed): the three ways the race of tryInitDb can end give its
\* caller three different results.
CE_C9_ThreeResults ==
  \A p, q \in Procs :
    (/\ callers[p].via \in {"connected", "timeout", "rejected"}
     /\ callers[q].via \in {"connected", "timeout", "rejected"}
     /\ callers[p].via # callers[q].via)
    => callers[p].ret # callers[q].ret

\* C9 (amended): tryInitDb returns true exactly when the sequence succeeded
\* before the deadline, and false both when the sequence was exhausted before
\* the deadline and when the deadline passed with the sequence still running.
Thm_C9_TwoResults ==
  \A p \in Procs :
    callers[p].kind = "init" =>
      /\ callers[p].ret = "true" <=> callers[p].via = "connected"
      /\ callers[p].ret = "false" <=> callers[p].via \in {"timeout", "rejected", "nouri"}
      /\ callers[p].via = "connected" =>
           callers[p].outcome = "resolved" /\ cache.conn = Handle
      /\ callers[p].via = "rejected" =>
           callers[p].outcome = "rejected" /\ seqs[callers[p].seq].state = "rejected"

Wit_C9_TwoResults ==
  \E p, q \in Procs :
    /\ callers[p].via = "timeout" /\ callers[p].ret = "false"
    /\ callers[q].via = "rejected" /\ callers[q].ret = "false"
    /\ callers[q].at = "Connecting"

\* a request to the health endpoint is handled by caller p in this step
HealthHandled(p) == callers[p].pc = "idle" /\ callers'[p].kind = "health"

\* C10 (as claimed): handling a health request starts no sequence, makes no
\* mongoose.connect call and leaves the cache as it is.
CE_C10_HealthReadOnly ==
  [][\A p \in Procs : HealthHandled(p) => ManagerUnchanged]_vars

\* C10 (amended): handling a health request leaves the manager as it is
\* unless it is a GET with a URI configured and no promise cached; then it
\* creates the retry sequence, with maxAttempts 3, and makes its first
\* mongoose.connect call.
Thm_C10_HealthColdStart ==
  [][\A p \in Procs :
       HealthHandled(p) =>
         IF callers'[p].method = "GET" /\ uriSet /\ cache.promise = NOSEQ
         THEN /\ Len(seqs') = Len(seqs) + 1
              /\ seqs'[Len(seqs')].maxAttempts = 3
              /\ seqs'[Len(seqs')].attempt = 1
              /\ cache'.promise = Len(seqs')
              /\ cache'.conn = cache.conn
              /\ connectCalls' = connectCalls + 1
              /\ outstanding' = outstanding + 1
         ELSE ManagerUnchanged]_vars

Wit_C10_HealthColdStart ==
  \E p, q, r \in Procs :
    /\ callers[p].kind = "health" /\ callers[p].path = "start"
    /\ callers[q].kind = "health" /\ callers[q].method = "GET"
    /\ callers[q].at = "Connecting"
    /\ callers[r].kind = "health" /\ callers[r].method = "POST"
    /\ connectCalls = 1

\* C11 (as claimed): the cached handle and the cached promise are never both
\* set, and a promise is cached only while its sequence is running.
CE_C11_HandleXorPromise ==
  /\ ~(cache.conn # NULL /\ cache.promise # NOSEQ)
  /\ cache.promise # NOSEQ => Pending(seqs[cache.promise])

\* C12: in every sequence the j-th wait is baseDelay * 2^(j-1), one wait
\* follows each failed attempt but the last, and none precedes attempt 1.
Thm_C12_Backoff ==
  \A i \in 1..Len(seqs) :
    LET s == seqs[i]
    IN  /\ \A j \in 1..Len(s.waits) : s.waits[j] = s.baseDelay * 2^(j - 1)
        /\ Len(s.waits) = IF s.state = "backoff" THEN s.attempt ELSE s.attempt - 1
        /\ Len(s.waits) <= AttemptLimit(s.optMax) - 1
        /\ \A p \in Procs :
             (callers[p].seq = i /\ callers[p].at = "Idle")
             => s.baseDelay = IF callers[p].optBase = UNDEF THEN 500 ELSE callers[p].optBase

Wit_C12_Backoff ==
  \E i \in 1..Len(seqs) :
    /\ seqs[i].optMax = 3
    /\ seqs[i].baseDelay = 100
    /\ seqs[i].waits = <<100, 200>>
    /\ seqs[i].state = "resolved"
    /\ seqs[i].attempt = 3
    /\ connectCalls = 3

\* C13: every sequence that is started settles, by success or by the
\* rejection that follows its last failed attempt, and by nothing else.
Thm_C13_Terminates ==
  /\ \A i \in SeqIds :
       (Len(seqs) >= i) ~> (Len(seqs) >= i /\ seqs[i].state \in {"resolved", "rejected"})
  /\ [](\A i \in 1..Len(seqs) :
          /\ seqs[i].state = "resolved" => Len(seqs[i].errs) = seqs[i].attempt - 1
          /\ seqs[i].state = "rejected" => Len(seqs[i].errs) = AttemptLimit(seqs[i].optMax))

Wit_C13_Terminates ==
  \E p, q \in Procs :
    /\ callers[p].via = "timeout" /\ callers[p].path = "start"
    /\ callers[q].at = "Connecting" /\ callers[q].seq = callers[p].seq
    /\ seqs[callers[p].seq].state = "rejected"

\* C14: a request that ran init is answered as soon as tryInitDb has
\* returned, whichever way it returned; the answer is the 500 exactly when
\* requiring the app threw, otherwise the handler is called; a rejected
\* connection is consumed by the race or by the handler attached on timeout.
Thm_C14_NeverFailsOnDb ==
  \A p \in Procs :
    /\ (callers[p].kind = "init" /\ callers[p].ret # "none") =>
         /\ callers[p].resp \in {"dispatched", "500"}
         /\ callers[p].resp = "500" <=> callers[p].appFail
         /\ callers[p].resp = "dispatched" => callers[p].called = HandlerFn
         /\ callers[p].outcome = "rejected" =>
              \/ callers[p].via = "rejected"
              \/ callers[p].via = "timeout" /\ callers[p].bg = "logged"
    /\ (callers[p].kind = "init" /\ callers[p].ret = "none") =>
         callers[p].resp = "none" /\ callers[p].via = "racing"
    /\ callers[p].kind = "request" => callers[p].resp = "dispatched"

Wit_C14_NeverFailsOnDb ==
  \E p, q \in Procs :
    /\ callers[p].via = "timeout" /\ callers[p].resp = "dispatched"
    /\ callers[p].bg = "logged"
    /\ callers[q].via = "rejected" /\ callers[q].resp = "dispatched"

\* the health endpoint answers the request of caller p in this step
HealthAnswered(p) == callers[p].code = 0 /\ callers'[p].code # 0

\* C15: the health endpoint answers 405 to a non-GET and 500 'error' to a GET
\* without a URI, in both cases without calling the manager; otherwise 503
\* 'error' when the call is rejected, 200 'ok' when it yields a handle that
\* reports connected, and 503 'degraded' when it yields one that does not.
Thm_C15_HealthReport ==
  [][\A p \in Procs :
       HealthAnswered(p) =>
         LET c == callers'[p]
             live == readyState' = 1
         IN  /\ c.kind = "health"
             /\ c.method # "GET" =>
                  c.code = 405 /\ c.arg = "none" /\ ManagerUnchanged
             /\ (c.method = "GET" /\ ~uriSet) =>
                  c.code = 500 /\ c.report = "error" /\ c.arg = "none" /\ ManagerUnchanged
             /\ (c.method = "GET" /\ uriSet) =>
                  /\ c.arg = "uri"
                  /\ c.outcome \in {"resolved", "rejected"}
                  /\ c.outcome = "rejected" => c.code = 503 /\ c.report = "error"
                  /\ (c.outcome = "resolved" /\ live) => c.code = 200 /\ c.report = "ok"
                  /\ (c.outcome = "resolved" /\ ~live) => c.code = 503 /\ c.report = "degraded"]_vars

Wit_C15_HealthReport ==
  \E p, q \in Procs :
    /\ callers[p].report = "ok" /\ callers[p].code = 200
    /\ callers[q].report = "degraded" /\ callers[q].code = 503
    /\ callers[q].value = Handle

\* C16: a handle is cached, or handed to a caller, only after some
\* mongoose.connect call has resolved.
Thm_C16_ReadyNeedsSuccess ==
  LET succeeded == \E i \in 1..Len(seqs) :
                     seqs[i].state = "resolved" /\ Len(seqs[i].errs) = seqs[i].attempt - 1
  IN  /\ cache.conn # NULL => succeeded
      /\ \A p \in Procs : callers[p].outcome = "resolved" => succeeded

Wit_C16_ReadyNeedsSuccess ==
  \E p, q \in Procs :
    /\ cache.conn = Handle
    /\ callers[p].via = "timeout"
    /\ callers[q].path = "attach" /\ callers[q].outcome = "resolved"
    /\ seqs[1].attempt = 2

\* C17: a sequence has the maxAttempts and baseDelay of the call that created
\* it, and a call that finds a promise cached changes neither the sequence
\* nor the connect calls, whatever options it passes.
Thm_C17_CreatorOptions ==
  /\ [](\A p \in Procs :
          callers[p].path = "start" =>
            LET s == seqs[callers[p].seq]
                n == AttemptLimit(callers[p].optMax)
                d == IF callers[p].optBase = UNDEF THEN 500 ELSE callers[p].optBase
            IN  /\ s.maxAttempts = n /\ s.baseDelay = d
                /\ s.attempt <= n
                /\ s.state = "rejected" => Len(s.errs) = n
                /\ \A j \in 1..Len(s.waits) : s.waits[j] = d * 2^(j - 1))
  /\ [][\A p \in Procs :
          (AcquireCalled(p) /\ cache.promise # NOSEQ)
          => seqs' = seqs /\ connectCalls' = connectCalls /\ outstanding' = outstanding]_vars

Wit_C17_CreatorOptions ==
  \E p, q \in Procs :
    /\ callers[p].path = "start" /\ callers[p].optMax = InitMaxAttempts
    /\ callers[q].path = "attach" /\ callers[q].at = "Connecting"
    /\ callers[q].optMax = HealthMaxAttempts
    /\ seqs[callers[p].seq].state = "rejected"
    /\ Len(seqs[callers[p].seq].errs) = InitMaxAttempts

\* C18: initialized is true only when handler is set, the handler is never
\* called while it is null, and an init that throws leaves initialized false.
Thm_C18_InitializedHasHandler ==
  /\ [](/\ wrapper.initialized => wrapper.handler = HandlerFn
        /\ \A p \in Procs : callers[p].called \in {"none", HandlerFn})
  /\ [][\A p \in Procs :
          (callers[p].resp = "none" /\ callers'[p].resp = "500")
          => ~wrapper'.initialized /\ wrapper' = wrapper]_vars

Wit_C18_InitializedHasHandler ==
  \E p, q, r \in Procs :
    /\ p < q /\ q < r
    /\ callers[p].kind = "init" /\ callers[p].resp = "500"
    /\ callers[q].kind = "init" /\ callers[q].resp = "dispatched"
    /\ callers[r].kind = "init" /\ callers[r].resp = "dispatched"
    /\ callers[r].at = "Connecting"
    /\ wrapper.initialized

\* C19: app.locals.dbConnected is true only after a mongoose.connect call has
\* resolved, and once true it is never overwritten with false.
Thm_C19_FlagNeedsSuccess ==
  /\ [](wrapper.dbConnected = "true" =>
          \E i \in 1..Len(seqs) : seqs[i].state = "resolved")
  /\ [](wrapper.dbConnected = "true" => cache.conn = Handle)
  /\ [][wrapper.dbConnected = "true" => wrapper'.dbConnected = "true"]_vars

Wit_C19_FlagNeedsSuccess ==
  \E p, q \in Procs :
    /\ callers[p].via = "timeout" /\ callers[p].resp = "dispatched"
    /\ callers[q].via = "connected" /\ callers[q].resp = "dispatched"
    /\ wrapper.dbConnected = "true"

====
